---- MODULE Spec2Model ----
(***************************************************************************)
(* Model of the Cryptodog updater (src/updater.go): the control loop of    *)
(* main, the release store (getReleaseDir, getReleaseSymlink,              *)
(* getLastReleaseID), downloadReleaseAssets, verifySignature,              *)
(* deployRelease and extractTarGz, over a model of the deploy directory.   *)
(*                                                                         *)
(* A file name is a sequence of one-character strings, so that             *)
(* strings.Split on "-" and the target-name pattern are computed on the    *)
(* characters.  The deploy directory is a function from the file names the *)
(* program can touch to directory entries.                                 *)
(***************************************************************************)
EXTENDS Integers, Sequences, FiniteSets, TLC

VARIABLES
    config,        \* Config after Validate: deployDir, targets, key, skip flag
    fs,            \* the entries of the deploy directory, by file name
    pc,            \* position of main / deployRelease / extractTarGz
    ti,            \* index in config.targets of the target being processed
    release,       \* result of GetLatestRelease, until its assets are read
    releaseID,     \* the ID of that release, as main formats it
    lastReleaseID, \* result of getLastReleaseID ("" when missing)
    tarGzBytes,    \* downloaded archive
    sigBytes,      \* downloaded signature
    verified,      \* whether verifySignature returned true for tarGzBytes
    ei,            \* extractTarGz: index of the next tar entry
    deployErr,     \* what deployRelease returned ("nil" or the failing step)
    fsAtCall,      \* the deploy directory when deployRelease was called
    full,          \* directories extractTarGz completed, untouched since
    anyFailed,     \* some call of deployRelease has returned an error
    log            \* last line main logged, and the target it was about

vars == <<config, fs, pc, ti, release, releaseID, lastReleaseID, tarGzBytes, sigBytes,
          verified, ei, deployErr, fsAtCall, full, anyFailed, log>>

-----------------------------------------------------------------------------
(* Bounds *)

\* release IDs are 1..MaxReleaseID
MaxReleaseID == 2

-----------------------------------------------------------------------------
(* Strings as character sequences *)

RECURSIVE SplitFrom(_, _, _)
\* strings.Split(s, sep) for a one-character sep; cur is the piece being read
SplitFrom(s, sep, cur) ==
    IF s = <<>> THEN <<cur>>
    ELSE IF Head(s) = sep THEN <<cur>> \o SplitFrom(Tail(s), sep, <<>>)
    ELSE SplitFrom(Tail(s), sep, Append(cur, Head(s)))

Split(s, sep) == SplitFrom(s, sep, <<>>)

\* \w of Go's regexp, restricted to the characters the model uses
WordChars == {"a", "b", "_", "1", "2", "3", "4"}

\* regexp ^[\w-]+$
targetNameRegexMatch(name) ==
    /\ Len(name) > 0
    /\ \A i \in 1..Len(name) : name[i] \in WordChars \cup {"-"}

DigitChars == <<"1", "2", "3", "4", "5", "6", "7", "8", "9">>

\* strconv.FormatInt(id, 10) of a one-digit positive id
FormatInt(n) == <<DigitChars[n]>>

ReleaseIDs == { FormatInt(n) : n \in 1..(MaxReleaseID + 1) }

-----------------------------------------------------------------------------
(* Paths *)

\* filepath.Join(dir, base) for a base without separators
Join(dir, base) == [dir |-> dir, base |-> base]

\* filepath.Base
Base(path) == path.base

\* filepath.IsAbs: a rooted path starts with the separator
IsAbs(dir) == Len(dir) > 0 /\ dir[1] = "/"

getReleaseDir(deployDir, targetName, id) ==
    Join(deployDir, targetName \o <<"-">> \o id)

getReleaseSymlink(deployDir, targetName) == Join(deployDir, targetName)

TmpSuffix == <<".", "t", "m", "p">>

\* releaseSymlink+".tmp"
TmpLink(deployDir, targetName) ==
    Join(deployDir, targetName \o TmpSuffix)

-----------------------------------------------------------------------------
(* Configuration *)

NameA     == <<"a">>
NameADash == <<"a", "-">>
NameA1    == <<"a", "-", "1">>
NameBad   == <<"a", ".">>

AbsDeployDir == <<"/", "w">>
RelDeployDir == <<"w">>

\* a Target; the owner is left out of the model
Target(name, repo) == [name |-> name, repo |-> repo]

\* Config.Validate: nil iff all of its checks pass
Validate(c) ==
    /\ c.deployDir # <<>>
    /\ c.updateInterval > 0
    /\ (~c.skipVerify => c.keyFile # "")
    /\ Len(c.targets) > 0
    /\ \A i \in 1..Len(c.targets) :
          /\ c.targets[i].name # <<>>
          /\ targetNameRegexMatch(c.targets[i].name)
          /\ c.targets[i].repo # ""
          /\ \A j \in 1..(i-1) : c.targets[j].name # c.targets[i].name

\* Config: keyFile is PublicSigningKeyFile, publicSigningKey the key read
\* from it ("good" or "malformed")
Cfg(d, t, kf, k, skip) ==
    [deployDir |-> d, targets |-> t, keyFile |-> kf, publicSigningKey |-> k,
     skipVerify |-> skip, updateInterval |-> 1]

One(n) == << Target(n, "x") >>

\* the configuration files the model starts from; Validate rejects the last five
CandidateConfigs ==
    { Cfg(AbsDeployDir, One(NameA), "key.pub", "good", FALSE),
      Cfg(AbsDeployDir, One(NameA), "key.pub", "malformed", FALSE),
      Cfg(AbsDeployDir, One(NameA), "", "", TRUE),
      Cfg(RelDeployDir, One(NameA), "", "", TRUE),
      Cfg(AbsDeployDir, One(NameA1), "", "", TRUE),
      Cfg(AbsDeployDir, << Target(NameA, "z") >>, "", "", TRUE),
      Cfg(AbsDeployDir, << Target(NameA, "x"), Target(NameA1, "y") >>,
          "", "", TRUE),
      Cfg(AbsDeployDir, << Target(NameADash, "y"), Target(NameA, "x") >>,
          "", "", TRUE),
      Cfg(AbsDeployDir, << Target(NameA, "x"), Target(NameA, "y") >>,
          "", "", TRUE),
      Cfg(AbsDeployDir, One(NameBad), "", "", TRUE),
      Cfg(AbsDeployDir, << >>, "", "", TRUE),
      Cfg(<<>>, One(NameA), "", "", TRUE),
      Cfg(AbsDeployDir, One(NameA), "", "", FALSE) }

\* the IDs of the releases a repository publishes: IDs are unique across
\* repositories
ReleaseIDsOf(repo) ==
    IF repo = "x" THEN { FormatInt(n) : n \in 1..MaxReleaseID }
    ELSE { FormatInt(MaxReleaseID + 1) }

-----------------------------------------------------------------------------
(* The deploy directory.  A location is a sequence of file names below the  *)
(* deploy directory; fs maps the locations that exist to their entries.     *)

DirNode == [kind |-> "dir", target |-> Join(<<>>, <<>>), data |-> ""]
FileNode(d) == [kind |-> "file", target |-> Join(<<>>, <<>>), data |-> d]
LinkNode(t) == [kind |-> "symlink", target |-> t, data |-> ""]

\* the location named by a path the program built with filepath.Join(deployDir, base)
Loc(path) == <<path.base>>

\* where the kernel looks for the target of a symlink that sits in the deploy
\* directory: an absolute target is itself, a relative one is taken relative
\* to the directory holding the link (symlink(2))
LinkDest(target) ==
    IF IsAbs(target.dir) THEN <<target.base>> ELSE <<target.dir, target.base>>

Exists(f, loc) == loc \in DOMAIN f
IsDir(f, loc) == loc = <<>> \/ (loc \in DOMAIN f /\ f[loc].kind = "dir")
IsSymlink(f, loc) == loc \in DOMAIN f /\ f[loc].kind = "symlink"

Parent(loc) == SubSeq(loc, 1, Len(loc) - 1)
Last(loc) == loc[Len(loc)]
IsPrefix(p, q) == Len(p) <= Len(q) /\ SubSeq(q, 1, Len(p)) = p

Put(f, loc, node) ==
    [q \in DOMAIN f \cup {loc} |-> IF q = loc THEN node ELSE f[q]]
Drop(f, locs) == [q \in DOMAIN f \ locs |-> f[q]]
Under(f, loc) == { q \in DOMAIN f : IsPrefix(loc, q) }
Subtree(f, loc) == [q \in Under(f, loc) |-> f[q]]

\* the kernel gives up resolving a path after this many symlinks
MaxLinkHops == 3

\* the result of resolving a path that does not resolve
NoLoc == <<(<<"!">>)>>

RECURSIVE Walk(_, _, _, _)
\* Path resolution following symlinks: the real location of cur/rest, or
\* NoLoc when a component is missing, is not a directory, or the links loop.
\* The final component is followed too.
Walk(f, cur, rest, hops) ==
    IF rest = <<>> THEN cur
    ELSE LET nxt == Append(cur, Head(rest)) IN
         IF ~Exists(f, nxt) THEN NoLoc
         ELSE IF f[nxt].kind = "symlink" THEN
              IF hops = 0 THEN NoLoc
              ELSE Walk(f, <<>>, LinkDest(f[nxt].target) \o Tail(rest), hops - 1)
         ELSE IF f[nxt].kind = "dir" \/ Tail(rest) = <<>> THEN
              Walk(f, nxt, Tail(rest), hops)
         ELSE NoLoc

\* stat(2): the real location a path resolves to, NoLoc if it does not resolve
Real(f, loc) == Walk(f, <<>>, loc, MaxLinkHops)

\* the real location of a path's parent directory, NoLoc if it is no directory
RealParent(f, loc) ==
    LET rp == Real(f, Parent(loc)) IN
    IF rp # NoLoc /\ IsDir(f, rp) THEN rp ELSE NoLoc

Ok(f) == [err |-> FALSE, fs |-> f]
Fail(f) == [err |-> TRUE, fs |-> f]

\* os.Mkdir: fails when the name exists (whatever it is) or the parent is missing
osMkdir(f, loc) ==
    LET rp == RealParent(f, loc) IN
    IF rp = NoLoc \/ Exists(f, Append(rp, Last(loc))) THEN Fail(f)
    ELSE Ok(Put(f, Append(rp, Last(loc)), DirNode))

RECURSIVE osMkdirAll(_, _)
\* os.MkdirAll: nil when the path already is a directory, an error when it
\* is something else, otherwise the parents first and then the directory
osMkdirAll(f, loc) ==
    IF loc = <<>> THEN Ok(f)
    ELSE LET r == Real(f, loc) IN
         IF r # NoLoc THEN (IF IsDir(f, r) THEN Ok(f) ELSE Fail(f))
         ELSE LET up == osMkdirAll(f, Parent(loc)) IN
              IF up.err THEN up ELSE osMkdir(up.fs, loc)

RECURSIVE CreateAt(_, _, _, _)
\* open(2) with O_CREAT|O_TRUNC on a resolved location, following a final symlink
CreateAt(f, loc, d, hops) ==
    IF ~Exists(f, loc) THEN Ok(Put(f, loc, FileNode(d)))
    ELSE IF f[loc].kind = "file" THEN Ok(Put(f, loc, FileNode(d)))
    ELSE IF f[loc].kind = "dir" THEN Fail(f)
    ELSE LET dest == LinkDest(f[loc].target)
             rp == RealParent(f, dest) IN
         IF hops = 0 \/ rp = NoLoc THEN Fail(f)
         ELSE CreateAt(f, Append(rp, Last(dest)), d, hops - 1)

\* os.Create followed by io.Copy of the data
osCreate(f, loc, d) ==
    IF loc = <<>> THEN Fail(f)
    ELSE LET rp == RealParent(f, loc) IN
         IF rp = NoLoc THEN Fail(f)
         ELSE CreateAt(f, Append(rp, Last(loc)), d, MaxLinkHops)

\* os.Symlink(target, link): fails when the link name exists
osSymlink(f, target, loc) ==
    IF Exists(f, loc) THEN Fail(f) ELSE Ok(Put(f, loc, LinkNode(target)))

\* os.Rename of a non-directory: atomically replaces a non-directory, fails
\* on a directory
osRename(f, old, new) ==
    IF ~Exists(f, old) \/ IsDir(f, new) THEN Fail(f)
    ELSE Ok(Drop(Put(f, new, f[old]), {old}))

\* os.RemoveAll: removes the name and everything below it; nil when absent
osRemoveAll(f, loc) == Ok(Drop(f, Under(f, loc)))

\* os.RemoveAll that fails part-way: the children it got to are gone
osRemoveAllPartial(f, loc) == Fail(Drop(f, Under(f, loc) \ {loc}))

-----------------------------------------------------------------------------
(* Archives and extractTarGz *)

\* deployRelease extracts with one leading component stripped
StripComponents == 1

NameR  == <<"r">>
NameF  == <<"f">>
NameS  == <<"s">>
NameL  == <<"l">>
Empty  == <<>>
DotDot == <<".", ".">>
Dot    == <<".">>
PaxName == <<(<<"pax_global_header">>)>>

\* a tar header: Name split at the separators ("r/" is <<NameR, Empty>>)
Hdr(name, typeflag, data) == [name |-> name, typeflag |-> typeflag, data |-> data]

RootDir == Hdr(<<NameR, Empty>>, "dir", "")

ArchV1 == [gzip |-> TRUE, entries |->
    << RootDir, Hdr(<<NameR, NameF>>, "reg", "v1") >>]
ArchV2 == [gzip |-> TRUE, entries |->
    << Hdr(PaxName, "pax", ""), RootDir,
       Hdr(<<NameR, NameS, Empty>>, "dir", ""),
       Hdr(<<NameR, NameS, NameF>>, "reg", "v2") >>]
ArchLink == [gzip |-> TRUE, entries |->
    << RootDir, Hdr(<<NameR, NameF>>, "reg", "v3"),
       Hdr(<<NameR, NameL>>, "symlink", "") >>]
ArchUp == [gzip |-> TRUE, entries |->
    << RootDir, Hdr(<<NameR, DotDot, NameA1, Empty>>, "dir", ""),
       Hdr(<<NameR, DotDot, NameA1, NameF>>, "reg", "up") >>]
ArchCorrupt == [gzip |-> FALSE, entries |-> << >>]

\* a file below a directory that has no entry of its own
ArchNoDir == [gzip |-> TRUE, entries |->
    << RootDir, Hdr(<<NameR, NameS, NameF>>, "reg", "v4") >>]
\* a regular file beside the wrapper directory
ArchTopFile == [gzip |-> TRUE, entries |->
    << Hdr(<<NameF>>, "reg", "t"), RootDir, Hdr(<<NameR, NameF>>, "reg", "v5") >>]

\* the archives a download of the control loop can return
Archives == {ArchV1, ArchLink, ArchUp, ArchCorrupt}

\* the archives the releases of a repository hold
ArchivesOf(repo) ==
    IF repo = "z" THEN {ArchV1, ArchV2, ArchNoDir, ArchTopFile} ELSE Archives

\* a location above the deploy directory
Outside == <<(<<"^">>)>>

RECURSIVE CleanFrom(_, _)
\* filepath.Clean, lexically: "" and "." are dropped, ".." removes the
\* component before it
CleanFrom(stack, rest) ==
    IF stack = Outside \/ rest = <<>> THEN stack
    ELSE IF Head(rest) \in {Empty, Dot} THEN CleanFrom(stack, Tail(rest))
    ELSE IF Head(rest) = DotDot THEN
         CleanFrom(IF stack = <<>> THEN Outside ELSE Parent(stack), Tail(rest))
    ELSE CleanFrom(Append(stack, Head(rest)), Tail(rest))

\* filepath.IsLocal: not empty, not rooted, and lexically inside the
\* directory it is evaluated in
IsLocal(name) ==
    /\ name \notin {<<>>, <<Empty>>}
    /\ ~(Len(name) > 1 /\ name[1] = Empty)
    /\ CleanFrom(<<>>, name) # Outside

\* tarReader.Next under tarinsecurepath=0: ErrInsecurePath for a non-local name
NextRejects(h) == ~IsLocal(h.name)

\* strings.SplitN(name, "/", n+1) and the join of what follows the first n
\* components; "" when there are at most n
StripName(name, n) ==
    IF Len(name) > n THEN SubSeq(name, n + 1, Len(name)) ELSE <<>>

\* filepath.Join(destination, target) as a location of the deploy directory
TargetLoc(dest, name) == CleanFrom(dest, StripName(name, StripComponents))

\* one iteration of the loop of extractTarGz on header h; io is an I/O fault
\* (a failing tar read, mkdir, create or copy)
ExtractEntry(f, dest, h, io) ==
    IF NextRejects(h) THEN Fail(f)
    ELSE IF h.name = PaxName THEN Ok(f)
    ELSE LET target == TargetLoc(dest, h.name) IN
         IF h.typeflag = "dir" THEN
              IF io \/ target = Outside THEN Fail(f) ELSE osMkdirAll(f, target)
         ELSE IF h.typeflag = "reg" THEN
              IF target = Outside THEN Fail(f)
              ELSE IF io THEN Fail(osCreate(f, target, "").fs)
              ELSE osCreate(f, target, h.data)
         ELSE Fail(f)

-----------------------------------------------------------------------------
(* Release store *)

\* getLastReleaseID without the check of the number of pieces
getLastReleaseIDUnchecked(f, deployDir, targetName) ==
    LET lastReleaseSymlink == Loc(getReleaseSymlink(deployDir, targetName)) IN
    IF ~Exists(f, lastReleaseSymlink) THEN [id |-> <<>>, err |-> "notexist"]
    ELSE IF f[lastReleaseSymlink].kind # "symlink" THEN
         [id |-> <<>>, err |-> "notsymlink"]
    ELSE LET split == Split(Base(f[lastReleaseSymlink].target), "-") IN
         [id |-> split[Len(split)], err |-> "nil"]

\* getLastReleaseID: err is "nil", "notexist" (os.IsNotExist holds of it),
\* "notsymlink" or "invalid"
getLastReleaseID(f, deployDir, targetName) ==
    LET lastReleaseSymlink == Loc(getReleaseSymlink(deployDir, targetName)) IN
    IF ~Exists(f, lastReleaseSymlink) THEN [id |-> <<>>, err |-> "notexist"]
    ELSE IF f[lastReleaseSymlink].kind # "symlink" THEN
         [id |-> <<>>, err |-> "notsymlink"]
    ELSE LET split == Split(Base(f[lastReleaseSymlink].target), "-") IN
         IF Len(split) # 2 THEN [id |-> <<>>, err |-> "invalid"]
         ELSE [id |-> split[2], err |-> "nil"]

-----------------------------------------------------------------------------
(* Release assets and signatures *)

\* an asset: whether its name matches the tar.gz pattern, the signature
\* pattern or neither, and the host of its download URL
Asset(name, host) == [name |-> name, host |-> host]

AssetLists ==
    { << Asset("tgz", "github.com"), Asset("sig", "github.com") >>,
      << Asset("tgz", "github.com"), Asset("sig", "github.com"),
         Asset("other", "github.com") >>,
      << Asset("tgz", "github.com") >>,
      << Asset("sig", "github.com"), Asset("tgz", "github.com") >>,
      << Asset("tgz", "example.org"), Asset("sig", "github.com") >> }

NoRelease == [id |-> <<>>, assets |-> <<>>]

\* a signature: whether it decodes, and the payload it was made over with
\* the key pair of the "good" public key
Sig(wf, over) == [wf |-> wf, over |-> over]

NoSig == Sig(FALSE, ArchCorrupt)

validateAssetURL(asset) == asset.host = "github.com"

\* downloadReleaseAssets: err, or the bodies the two URLs serve
downloadReleaseAssets(rel, tarBody, sigBody, netErr) ==
    IF \/ Len(rel.assets) < 2
       \/ rel.assets[1].name # "tgz"
       \/ rel.assets[2].name # "sig"
       \/ ~validateAssetURL(rel.assets[1])
       \/ ~validateAssetURL(rel.assets[2])
       \/ netErr
    THEN [err |-> TRUE, tarGzBytes |-> ArchCorrupt, sigBytes |-> NoSig]
    ELSE [err |-> FALSE, tarGzBytes |-> tarBody, sigBytes |-> sigBody]

\* the signatures a download can return next to archive a: a matching one,
\* one made over another payload, one that does not decode
SigsFor(a) ==
    { Sig(TRUE, a), Sig(TRUE, IF a = ArchV1 THEN ArchV2 ELSE ArchV1), NoSig }

\* verifySignature: the bool it returns
verifySignature(publicSigningKey, tarBytes, sig) ==
    /\ publicSigningKey = "good"
    /\ sig.wf
    /\ sig.over = tarBytes

-----------------------------------------------------------------------------
(* The control loop of main *)

Init ==
    /\ config \in { c \in CandidateConfigs : Validate(c) }
    /\ fs = << >>
    /\ pc = "check"
    /\ ti = 1
    /\ release = NoRelease
    /\ releaseID = <<>>
    /\ lastReleaseID = <<>>
    /\ tarGzBytes = ArchCorrupt
    /\ sigBytes = NoSig
    /\ verified = FALSE
    /\ ei = 0
    /\ deployErr = "none"
    /\ fsAtCall = << >>
    /\ full = {}
    /\ anyFailed = FALSE
    /\ log = "checking for update"

\* the target of the current iteration of the inner loop
Cur == config.targets[ti].name

\* what of `full` a step from f to g leaves untouched
Intact(f, g) == { d \in full : Subtree(g, d) = Subtree(f, d) }

\* break in place of continue: the sweep ends with the current target
ContinueBreak(msg) ==
    /\ log' = msg
    /\ pc' = "sleep"
    /\ ti' = ti
    /\ release' = NoRelease
    /\ releaseID' = <<>>
    /\ lastReleaseID' = <<>>
    /\ tarGzBytes' = ArchCorrupt
    /\ sigBytes' = NoSig
    /\ verified' = FALSE
    /\ ei' = 0
    /\ deployErr' = "none"
    /\ fsAtCall' = << >>

\* log msg for the current target and leave the body of the inner loop
Continue(msg) ==
    /\ log' = msg
    /\ pc' = "continue"
    /\ ti' = ti
    /\ release' = NoRelease
    /\ releaseID' = <<>>
    /\ lastReleaseID' = <<>>
    /\ tarGzBytes' = ArchCorrupt
    /\ sigBytes' = NoSig
    /\ verified' = FALSE
    /\ ei' = 0
    /\ deployErr' = "none"
    /\ fsAtCall' = << >>

\* main line 71: the target is up to date
AlreadyLatest(last, id) == last.err = "nil" /\ last.id = id

\* main lines 51-76: query the latest release, look up the installed one;
\* apiErrs says whether the query can fail, lists are the asset lists a
\* release can have
CheckForUpdateWith(apiErrs, lists) ==
    /\ pc = "check"
    /\ \E apiErr \in apiErrs, id \in ReleaseIDsOf(config.targets[ti].repo),
          assets \in lists :
         LET last == getLastReleaseID(fs, config.deployDir, Cur) IN
         IF apiErr THEN Continue("api error")
         ELSE IF last.err \notin {"nil", "notexist"}
              THEN Continue("error getting last release ID")
         ELSE IF AlreadyLatest(last, id)
              THEN Continue("already at latest release")
         ELSE /\ pc' = "download"
              /\ release' = [id |-> id, assets |-> assets]
              /\ releaseID' = id
              /\ lastReleaseID' = last.id
              /\ log' = "update found"
              /\ UNCHANGED <<ti, tarGzBytes, sigBytes, verified, ei,
                             deployErr, fsAtCall>>
    /\ UNCHANGED <<config, fs, full, anyFailed>>

CheckForUpdate == CheckForUpdateWith(BOOLEAN, AssetLists)

\* main lines 77-81; archives are the archives the release can hold, netErrs
\* says whether a download can fail
DownloadWith(archives, netErrs) ==
    /\ pc = "download"
    /\ \E a \in archives, netErr \in netErrs :
       \E sg \in SigsFor(a) :
         LET r == downloadReleaseAssets(release, a, sg, netErr) IN
         IF r.err THEN Continue("update failed")
         ELSE /\ pc' = "verify"
              /\ tarGzBytes' = r.tarGzBytes
              /\ sigBytes' = r.sigBytes
              /\ release' = NoRelease
              /\ UNCHANGED <<ti, releaseID, lastReleaseID, verified, ei,
                             deployErr, fsAtCall, log>>
    /\ UNCHANGED <<config, fs, full, anyFailed>>

Download == DownloadWith(ArchivesOf(config.targets[ti].repo), BOOLEAN)

\* the result of verifySignature ignored
PassesVerificationIgnored(skip, ok) == TRUE

\* main lines 83-91: whether the loop goes on to deployRelease
PassesVerification(skip, ok) == skip \/ ok

\* main lines 83-93: verify, then call deployRelease
Verify ==
    /\ pc = "verify"
    /\ LET ok == verifySignature(config.publicSigningKey, tarGzBytes, sigBytes) IN
         IF ~PassesVerification(config.skipVerify, ok)
         THEN Continue("update failed")
         ELSE /\ pc' = "mkdir"
              /\ verified' = (~config.skipVerify /\ ok)
              /\ deployErr' = "running"
              /\ fsAtCall' = fs
              /\ log' = IF config.skipVerify
                        THEN "skipping signature verification" ELSE log
              /\ sigBytes' = NoSig
              /\ UNCHANGED <<ti, release, releaseID, lastReleaseID,
                             tarGzBytes, ei>>
    /\ UNCHANGED <<config, fs, full, anyFailed>>

-----------------------------------------------------------------------------
(* deployRelease, one action per file-system call *)

releaseDir == getReleaseDir(config.deployDir, Cur, releaseID)
releaseSymlink == getReleaseSymlink(config.deployDir, Cur)

\* deployRelease returns e to main ("nil" for success)
Return(e) ==
    /\ deployErr' = e
    /\ anyFailed' = (anyFailed \/ e # "nil")
    /\ pc' = "report"
    /\ tarGzBytes' = ArchCorrupt
    /\ ei' = 0
    /\ UNCHANGED <<config, ti, release, releaseID, lastReleaseID, sigBytes,
                   verified, fsAtCall, log>>

\* os.MkdirAll in place of os.Mkdir
AllocateMkdirAll(f, dir) == osMkdirAll(f, Loc(dir))

\* line 212
Allocate(f, dir) == osMkdir(f, Loc(dir))

\* faults says whether the call can fail for a reason outside the model
MkdirWith(faults) ==
    /\ pc = "mkdir"
    /\ \E io \in faults :
         LET r == IF io THEN Fail(fs) ELSE Allocate(fs, releaseDir) IN
         /\ fs' = r.fs
         /\ full' = Intact(fs, r.fs)
         /\ IF r.err THEN Return("mkdir")
            ELSE /\ pc' = "extract"
                 /\ ei' = 1
                 /\ UNCHANGED <<config, ti, release, releaseID,
                                lastReleaseID, tarGzBytes, sigBytes,
                                verified, deployErr, fsAtCall, log, anyFailed>>

Mkdir == MkdirWith(BOOLEAN)

\* the I/O faults injected into a step of the extraction
ExtractFaults == BOOLEAN

\* line 215 and extractTarGz: gzip.NewReader, then one tar entry per step
\* until io.EOF
ExtractWith(faults) ==
    /\ pc = "extract"
    /\ IF ~tarGzBytes.gzip THEN
            /\ UNCHANGED <<fs, full>>
            /\ Return("extract")
       ELSE IF ei > Len(tarGzBytes.entries) THEN
            /\ pc' = "symlink"
            /\ full' = full \cup {Loc(releaseDir)}
            /\ tarGzBytes' = ArchCorrupt
            /\ ei' = 0
            /\ UNCHANGED <<config, fs, ti, release, releaseID, lastReleaseID,
                           sigBytes, verified, deployErr, fsAtCall, log, anyFailed>>
       ELSE \E io \in faults :
            LET r == ExtractEntry(fs, Loc(releaseDir), tarGzBytes.entries[ei], io) IN
            /\ fs' = r.fs
            /\ full' = Intact(fs, r.fs)
            /\ IF r.err THEN Return("extract")
               ELSE /\ ei' = ei + 1
                    /\ UNCHANGED <<config, pc, ti, release, releaseID,
                                   lastReleaseID, tarGzBytes, sigBytes,
                                   verified, deployErr, fsAtCall, log, anyFailed>>

Extract == ExtractWith(ExtractFaults)

\* line 220
SymlinkWith(faults) ==
    /\ pc = "symlink"
    /\ \E io \in faults :
         LET r == IF io THEN Fail(fs)
                  ELSE osSymlink(fs, releaseDir, Loc(TmpLink(config.deployDir, Cur))) IN
         /\ fs' = r.fs
         /\ full' = Intact(fs, r.fs)
         /\ IF r.err THEN Return("symlink")
            ELSE /\ pc' = "rename"
                 /\ UNCHANGED <<config, ti, release, releaseID,
                                lastReleaseID, tarGzBytes, sigBytes,
                                verified, ei, deployErr, fsAtCall, log, anyFailed>>

Symlink == SymlinkWith(BOOLEAN)

\* line 223
RenameWith(faults) ==
    /\ pc = "rename"
    /\ \E io \in faults :
         LET r == IF io THEN Fail(fs)
                  ELSE osRename(fs, Loc(TmpLink(config.deployDir, Cur)),
                                Loc(releaseSymlink)) IN
         /\ fs' = r.fs
         /\ full' = Intact(fs, r.fs)
         /\ IF r.err THEN Return("rename")
            ELSE /\ pc' = "retire"
                 /\ UNCHANGED <<config, ti, release, releaseID,
                                lastReleaseID, tarGzBytes, sigBytes,
                                verified, ei, deployErr, fsAtCall, log, anyFailed>>

Rename == RenameWith(BOOLEAN)

\* line 228: the directory deployRelease removes
RetireDir(deployDir, targetName, newID, lastID) ==
    getReleaseDir(deployDir, targetName, lastID)

\* the ways os.RemoveAll can go: to the end, or failing before or after it
\* has removed the content
RemoveFaults == {"none", "early", "partial"}

\* line 228
RetireWith(faults) ==
    /\ pc = "retire"
    /\ \E io \in faults :
         LET dir == Loc(RetireDir(config.deployDir, Cur, releaseID, lastReleaseID))
             r == IF io = "none" \/ ~Exists(fs, dir) THEN osRemoveAll(fs, dir)
                  ELSE IF io = "early" THEN Fail(fs)
                  ELSE osRemoveAllPartial(fs, dir) IN
         /\ fs' = r.fs
         /\ full' = Intact(fs, r.fs)
         /\ Return(IF r.err THEN "remove" ELSE "nil")

Retire == RetireWith(RemoveFaults)

\* main lines 94-98: the outcome main logs for what deployRelease returned
Outcome(err) == IF err # "nil" THEN "update failed" ELSE "update successful"

Report ==
    /\ pc = "report"
    /\ Continue(Outcome(deployErr))
    /\ UNCHANGED <<config, fs, full, anyFailed>>

\* main line 50: the next target of the sweep, if any
NextTarget ==
    /\ pc = "continue"
    /\ pc' = IF ti = Len(config.targets) THEN "sleep" ELSE "check"
    /\ ti' = IF ti = Len(config.targets) THEN ti ELSE ti + 1
    /\ log' = IF ti = Len(config.targets) THEN "sleeping"
              ELSE "checking for update"
    /\ UNCHANGED <<config, fs, release, releaseID, lastReleaseID, tarGzBytes,
                   sigBytes, verified, ei, deployErr, fsAtCall, full, anyFailed>>

\* main line 100, and the start of the next sweep
Sleep ==
    /\ pc = "sleep"
    /\ pc' = "check"
    /\ ti' = 1
    /\ log' = "checking for update"
    /\ UNCHANGED <<config, fs, release, releaseID, lastReleaseID, tarGzBytes,
                   sigBytes, verified, ei, deployErr, fsAtCall, full, anyFailed>>

Next ==
    \/ CheckForUpdate
    \/ Download
    \/ Verify
    \/ Mkdir
    \/ Extract
    \/ Symlink
    \/ Rename
    \/ Retire
    \/ Report
    \/ NextTarget
    \/ Sleep

Spec == Init /\ [][Next]_vars

-----------------------------------------------------------------------------
(* Runs from one configuration *)

\* one target "a", a rooted deploy_dir
InitAbs == Init /\ config = Cfg(AbsDeployDir, One(NameA), "", "", TRUE)
SpecAbs == InitAbs /\ [][Next]_vars

\* one target "a", a relative deploy_dir
InitRel == Init /\ config = Cfg(RelDeployDir, One(NameA), "", "", TRUE)
SpecRel == InitRel /\ [][Next]_vars

\* one target "a-1", a rooted deploy_dir
InitHyphen == Init /\ config = Cfg(AbsDeployDir, One(NameA1), "", "", TRUE)
SpecHyphen == InitHyphen /\ [][Next]_vars

\* deploy directories that hold something at the pointer's path before the
\* updater first runs: a link to a directory named without "-<id>", a
\* directory, a regular file
NameM == <<"m">>
PreExisting ==
    { << >>,
      Put(Put(<< >>, <<NameM>>, DirNode), <<NameA>>,
          LinkNode(Join(AbsDeployDir, NameM))),
      Put(<< >>, <<NameA>>, DirNode),
      Put(<< >>, <<NameA>>, FileNode("x")) }

InitPre ==
    /\ config = Cfg(AbsDeployDir, One(NameA), "", "", TRUE)
    /\ fs \in PreExisting
    /\ pc = "check"
    /\ ti = 1
    /\ release = NoRelease
    /\ releaseID = <<>>
    /\ lastReleaseID = <<>>
    /\ tarGzBytes = ArchCorrupt
    /\ sigBytes = NoSig
    /\ verified = FALSE
    /\ ei = 0
    /\ deployErr = "none"
    /\ fsAtCall = << >>
    /\ full = {}
    /\ anyFailed = FALSE
    /\ log = "checking for update"

SpecPre == InitPre /\ [][Next]_vars

\* targets "a-" and "a"
InitDash ==
    Init /\ config = Cfg(AbsDeployDir, << Target(NameADash, "y"), Target(NameA, "x") >>,
                         "", "", TRUE)
SpecDash == InitDash /\ [][Next]_vars

\* targets "a" and "a-1"
InitPair ==
    Init /\ config = Cfg(AbsDeployDir, << Target(NameA, "x"), Target(NameA1, "y") >>,
                         "", "", TRUE)
SpecPair == InitPair /\ [][Next]_vars

\* targets "a-1" and "a", signature verification enabled
InitSweep ==
    /\ config = Cfg(AbsDeployDir, << Target(NameA1, "z"), Target(NameA, "z") >>,
                    "key.pub", "good", FALSE)
    /\ fs = << >>
    /\ pc = "check"
    /\ ti = 1
    /\ release = NoRelease
    /\ releaseID = <<>>
    /\ lastReleaseID = <<>>
    /\ tarGzBytes = ArchCorrupt
    /\ sigBytes = NoSig
    /\ verified = FALSE
    /\ ei = 0
    /\ deployErr = "none"
    /\ fsAtCall = << >>
    /\ full = {}
    /\ anyFailed = FALSE
    /\ log = "checking for update"

SpecSweep == InitSweep /\ [][Next]_vars

\* one target "a" whose repository holds archives laid out in other ways
InitLayout ==
    Init /\ config = Cfg(AbsDeployDir, << Target(NameA, "z") >>, "", "", TRUE)
SpecLayout == InitLayout /\ [][Next]_vars

-----------------------------------------------------------------------------
(* Sweeps repeated fairly, with faults that do not recur *)

\* the asset list of a well-formed release
GoodAssets == << Asset("tgz", "github.com"), Asset("sig", "github.com") >>

\* whether a call can still fail for a reason outside the model: not once a
\* deployment has failed
Transient == IF anyFailed THEN {FALSE} ELSE BOOLEAN

NameB == <<"b">>

\* targets "a" and "b" whose repository holds one release, with archive ArchV1
InitRetry ==
    /\ config = Cfg(AbsDeployDir, << Target(NameA, "y"), Target(NameB, "y") >>,
                    "", "", TRUE)
    /\ fs = << >>
    /\ pc = "check"
    /\ ti = 1
    /\ release = NoRelease
    /\ releaseID = <<>>
    /\ lastReleaseID = <<>>
    /\ tarGzBytes = ArchCorrupt
    /\ sigBytes = NoSig
    /\ verified = FALSE
    /\ ei = 0
    /\ deployErr = "none"
    /\ fsAtCall = << >>
    /\ full = {}
    /\ anyFailed = FALSE
    /\ log = "checking for update"

NextRetry ==
    \/ CheckForUpdateWith(Transient, IF anyFailed THEN {GoodAssets} ELSE AssetLists)
    \/ DownloadWith({ArchV1}, Transient)
    \/ Verify
    \/ MkdirWith(Transient)
    \/ ExtractWith(Transient)
    \/ SymlinkWith(Transient)
    \/ RenameWith(Transient)
    \/ RetireWith(IF anyFailed THEN {"none"} ELSE RemoveFaults)
    \/ Report
    \/ NextTarget
    \/ Sleep

\* main's loop has no exit and every call in it returns: the loop keeps
\* taking steps
SpecRetry == InitRetry /\ [][NextRetry]_vars /\ WF_vars(NextRetry)

-----------------------------------------------------------------------------
(* What the claims speak about *)

TargetNames == { config.targets[i].name : i \in 1..Len(config.targets) }

\* the location of the active pointer of target t
Ptr(t) == Loc(getReleaseSymlink(config.deployDir, t))

\* the location of the release directory of target t for release id
ReleaseLoc(t, id) == Loc(getReleaseDir(config.deployDir, t, id))

Absent == [kind |-> "none", target |-> Join(<<>>, <<>>), data |-> ""]

\* what lstat and readlink show at a location
EntryAt(f, loc) == IF Exists(f, loc) THEN f[loc] ELSE Absent

\* a call of deployRelease is running
InDeploy == pc \in {"mkdir", "extract", "symlink", "rename", "retire"}

\* the pointer of t resolves to a release directory of t that extractTarGz
\* completed and nothing has written to since
ResolvesToFullRelease(t) ==
    /\ Real(fs, Ptr(t)) \in full
    /\ \E id \in ReleaseIDs : Real(fs, Ptr(t)) = ReleaseLoc(t, id)

-----------------------------------------------------------------------------
(* Claims *)

\* C1: between calls of deployRelease, the active pointer of every target
\* either does not exist or resolves to an existing, fully extracted release
\* directory of the target.
C1_PointerAbsentOrFullRelease ==
    \A t \in TargetNames :
        (~InDeploy /\ Exists(fs, Ptr(t))) => ResolvesToFullRelease(t)


\* C2: with verification enabled, the deploy directory changes only while
\* verifySignature has returned true for the archive being deployed, and a
\* failed verification ends the attempt with the directory unchanged.
C2_NoMutationBeforeVerification ==
    [][ /\ (fs' # fs /\ ~config.skipVerify) => verified
        /\ (verified' /\ ~verified) =>
               /\ pc = "verify"
               /\ verifySignature(config.publicSigningKey, tarGzBytes, sigBytes)
               /\ tarGzBytes' = tarGzBytes
        /\ (pc = "verify" /\ ~config.skipVerify /\ pc' = "mkdir") => verified'
        /\ ( /\ pc = "verify"
             /\ ~config.skipVerify
             /\ ~verifySignature(config.publicSigningKey, tarGzBytes, sigBytes) )
           => (pc' = "continue" /\ fs' = fs /\ log' = "update failed")
      ]_vars

\* a verified archive has been deployed and has changed the deploy directory
C2_Witness ==
    /\ ~config.skipVerify
    /\ verified
    /\ pc = "report"
    /\ fs # fsAtCall

\* C3: at every instant the pointer, once it exists, resolves to a fully
\* extracted release directory and never goes missing, and only the rename
\* of deployRelease for that target changes what it resolves to.
C3_ObserverSeesPreviousOrNew ==
    [][ \A t \in TargetNames :
          /\ Exists(fs', Ptr(t)) => ResolvesToFullRelease(t)'
          /\ Exists(fs, Ptr(t)) => Exists(fs', Ptr(t))
          /\ ( \/ EntryAt(fs', Ptr(t)) # EntryAt(fs, Ptr(t))
               \/ Real(fs', Ptr(t)) # Real(fs, Ptr(t)) )
             => (pc = "rename" /\ t = Cur)
      ]_vars

\* deployRelease returned an error from one of the steps before the commit
FailedBeforeCommit ==
    pc = "report" /\ deployErr \in {"mkdir", "extract", "symlink", "rename"}

\* C4: when deployRelease fails at allocate, populate, symlink or rename,
\* the pointer is exactly what it was when deployRelease was called.
C4_FailureLeavesPointer ==
    FailedBeforeCommit =>
        EntryAt(fs, Ptr(Cur)) = EntryAt(fsAtCall, Ptr(Cur))

\* C5: deployRelease for a release whose directory already exists fails at
\* the allocate step and changes nothing in the deploy directory.
C5_ExistingReleaseDirUntouched ==
    ( /\ pc \in {"mkdir", "extract", "symlink", "rename", "retire", "report"}
      /\ Exists(fsAtCall, ReleaseLoc(Cur, releaseID)) )
    => /\ fs = fsAtCall
       /\ pc \in {"mkdir", "report"}
       /\ pc = "report" => deployErr = "mkdir"

\* a retried deployment: the directory existed with content, the pointer
\* referenced another release, and deployRelease has returned
C5_Witness ==
    /\ pc = "report"
    /\ deployErr = "mkdir"
    /\ IsDir(fsAtCall, ReleaseLoc(Cur, releaseID))
    /\ Cardinality(Under(fsAtCall, ReleaseLoc(Cur, releaseID))) > 1
    /\ IsSymlink(fsAtCall, Ptr(Cur))

\* the directory the pointer of t names, NoLoc when there is no pointer
Referenced(f, t) ==
    IF IsSymlink(f, Ptr(t)) THEN <<Base(f[Ptr(t)].target)>> ELSE NoLoc

\* C6: no step deletes or modifies the release directory that a pointer
\* references when the step is taken.
C6_ActiveReleaseUntouched ==
    [][ \A t \in TargetNames :
          Exists(fs, Referenced(fs, t)) =>
              Subtree(fs', Referenced(fs, t)) = Subtree(fs, Referenced(fs, t))
      ]_vars

\* C7: when only the removal of the previous release directory failed, main
\* logs "update successful" and the pointer references the new release.
C7_RetireFailureIsSuccess ==
    [][ (pc = "report" /\ deployErr = "remove") =>
            /\ log' = "update successful"
            /\ Referenced(fs', Cur) = ReleaseLoc(Cur, releaseID)
      ]_vars

\* C8: after a successful deployRelease the pointer resolves to the new
\* release directory, fully extracted, the previous one is gone, and if no
\* deployment has failed it is the only release directory of the target.
C8_SuccessLeavesOnlyNewRelease ==
    (pc = "report" /\ deployErr = "nil") =>
        /\ Real(fs, Ptr(Cur)) = ReleaseLoc(Cur, releaseID)
        /\ ReleaseLoc(Cur, releaseID) \in full
        /\ lastReleaseID # <<>> => ~Exists(fs, ReleaseLoc(Cur, lastReleaseID))
        /\ ~anyFailed =>
              \A id \in ReleaseIDs \ {releaseID} :
                  ~(Exists(fs, ReleaseLoc(Cur, id)) /\ IsDir(fs, ReleaseLoc(Cur, id)))

\* C9: after a successful deployRelease, getLastReleaseID returns the
\* deployed release ID without error, whatever the valid target name.
C9_LastReleaseIDRoundTrip ==
    (pc = "report" /\ deployErr = "nil") =>
        getLastReleaseID(fs, config.deployDir, Cur) =
            [id |-> releaseID, err |-> "nil"]


\* the name has no "-"
NoIdSuffix(base) == \A i \in 1..Len(base) : base[i] # "-"

\* the pointer of t exists and is no symlink, or names a directory without
\* a "-<id>" suffix
PointerUnusable(f, t) ==
    /\ Exists(f, Ptr(t))
    /\ (f[Ptr(t)].kind # "symlink" \/ NoIdSuffix(Base(f[Ptr(t)].target)))

\* C10: a missing pointer makes the loop go on to the download as a first
\* deployment (unless the release query failed); a pointer that is no
\* symlink or names a directory without "-<id>" ends the target's turn
\* with the deploy directory unchanged.
C10_MissingPointerIsFirstDeployment ==
    [][ pc = "check" =>
          /\ ~Exists(fs, Ptr(Cur)) =>
                \/ (pc' = "continue" /\ log' = "api error")
                \/ (pc' = "download" /\ lastReleaseID' = <<>> /\ ti' = ti)
          /\ PointerUnusable(fs, Cur) =>
                /\ pc' = "continue"
                /\ fs' = fs
                /\ log' \in {"api error", "error getting last release ID"}
      ]_vars

\* the loop has refused a pointer that names a directory without "-<id>"
C10_Witness ==
    /\ pc = "continue"
    /\ log = "error getting last release ID"
    /\ IsSymlink(fs, Ptr(Cur))
    /\ NoIdSuffix(Base(fs[Ptr(Cur)].target))

\* the locations whose entry a step from f to g creates, changes or removes
Touched(f, g) ==
    { q \in DOMAIN f \cup DOMAIN g : EntryAt(f, q) # EntryAt(g, q) }

\* C11: a step of extractTarGz creates or writes nothing outside its
\* destination directory, whatever the archive's entries.
C11_ExtractStaysInDestination ==
    [][ pc = "extract" =>
            \A q \in Touched(fs, fs') : IsPrefix(Loc(releaseDir), q)
      ]_vars

\* extractTarGz is about to read a tar entry
AtEntry ==
    pc = "extract" /\ tarGzBytes.gzip /\ ei \in 1..Len(tarGzBytes.entries)

\* that entry, and where extractTarGz puts it
Entry == tarGzBytes.entries[ei]
EntryTarget == TargetLoc(Loc(releaseDir), Entry.name)

\* the entry is a regular file below the destination whose parent directory
\* does not exist
FileWithoutParent ==
    /\ AtEntry
    /\ Entry.typeflag = "reg"
    /\ ~NextRejects(Entry)
    /\ EntryTarget # Outside
    /\ IsPrefix(Loc(releaseDir), Parent(EntryTarget))
    /\ ~Exists(fs, Parent(EntryTarget))

\* C12: without an I/O fault, extractTarGz handles a regular-file entry whose
\* parent directory no earlier entry created: it creates the ancestors and
\* writes the file.
C12_FileEntryCreatesAncestors ==
    FileWithoutParent =>
        LET r == ExtractEntry(fs, Loc(releaseDir), Entry, FALSE) IN
        /\ ~r.err
        /\ IsDir(r.fs, Parent(EntryTarget))
        /\ EntryAt(r.fs, EntryTarget) = FileNode(Entry.data)

\* the entry's name has at most StripComponents components
FullyStripped == AtEntry /\ Len(Entry.name) <= StripComponents

\* C13: an entry whose name stripping removes entirely is skipped, whatever
\* its kind: no error and no effect on the file system.
C13_FullyStrippedEntrySkipped ==
    (FullyStripped /\ ~NextRejects(Entry)) =>
        ExtractEntry(fs, Loc(releaseDir), Entry, FALSE) = Ok(fs)

\* C14: a call of deployRelease for a first deployment (empty previous
\* release ID) deletes nothing from the deploy directory; only its own
\* temporary link is renamed away.
C14_FirstDeploymentDeletesNothing ==
    [][ (InDeploy /\ lastReleaseID = <<>>) =>
            \A q \in DOMAIN fs \ {Loc(TmpLink(config.deployDir, Cur))} :
                q \in DOMAIN fs'
      ]_vars

\* the locations that belong to target t: its pointer, and its release
\* directories with everything below them
Owned(t) ==
    {Ptr(t)} \cup
    { q \in DOMAIN fs \cup DOMAIN fs' :
        \E id \in ReleaseIDs : IsPrefix(ReleaseLoc(t, id), q) }

\* C15: a deployment of one target never creates, changes or deletes the
\* pointer or a release directory of another configured target.
C15_TargetsDisjoint ==
    [][ InDeploy =>
            \A t \in TargetNames \ {Cur} :
                Touched(fs, fs') \cap Owned(t) = {}
      ]_vars

\* C17: whenever deployRelease has returned, with nil or with an error,
\* there is no temporary link <deployDir>/<targetName>.tmp.
C17_NoTemporaryLinkLeft ==
    pc = "report" => ~Exists(fs, Loc(TmpLink(config.deployDir, Cur)))

\* the asset list is exactly one tar.gz asset followed by one signature asset
ExactlyTwoNamed(assets) ==
    /\ Len(assets) = 2
    /\ assets[1].name = "tgz"
    /\ assets[2].name = "sig"

\* C19: a release whose asset list is not exactly the two named assets is a
\* failure for the target in that sweep: nothing is downloaded and the
\* deploy directory is unchanged.
C19_AssetShapeMismatchFails ==
    [][ (pc = "download" /\ ~ExactlyTwoNamed(release.assets)) =>
            /\ pc' = "continue"
            /\ log' = "update failed"
            /\ tarGzBytes' = ArchCorrupt
            /\ sigBytes' = NoSig
            /\ fs' = fs
      ]_vars

\* the positions inside the body of the inner loop
InBody ==
    pc \in {"check", "download", "verify", "mkdir", "extract", "symlink",
            "rename", "retire", "report"}

\* C18: every sweep processes the targets once each, in configuration
\* order; whatever fails for a target only ends that target's turn, the next
\* target follows in the same sweep, and the loop always has a next step.
C18_EveryTargetEverySweep ==
    /\ [](ENABLED Next)
    /\ [][ /\ config' = config
           /\ InBody => (ti' = ti /\ (InBody' \/ pc' = "continue"))
           /\ pc = "continue" =>
                 IF ti < Len(config.targets)
                 THEN pc' = "check" /\ ti' = ti + 1
                 ELSE pc' = "sleep" /\ ti' = ti
           /\ pc = "sleep" => (pc' = "check" /\ ti' = 1)
           /\ pc' = "check" => pc \in {"continue", "sleep"}
      ]_vars

\* a deployment of the first of two targets has failed, and the sweep is
\* about to go on to the second
C18_Witness ==
    /\ pc = "continue"
    /\ log = "update failed"
    /\ anyFailed
    /\ ti = 1
    /\ Len(config.targets) = 2

\* deployRelease for release r has returned an error from the populate or
\* the promote step
AbortedAt(r) ==
    /\ pc = "report"
    /\ deployErr \in {"extract", "symlink", "rename"}
    /\ releaseID = r

\* the pointer of t names the release directory of t for release r
Installed(t, r) == Referenced(fs, t) = ReleaseLoc(t, r)

\* C16: when a deployment of release r aborts at the populate or promote
\* step because of a fault that does not recur, a later sweep deploys r and
\* the pointer eventually references the release directory of r.
C16_AbortedAttemptIsRetried ==
    \A t \in {NameA, NameB}, r \in ReleaseIDs :
        (AbortedAt(r) /\ Cur = t) ~> Installed(t, r)

====
